---- MODULE Spec2Model ----
(***************************************************************************)
(* Fleet resolver of src/services/fleetService.ts: the eligibility         *)
(* matrices, the vehicle catalog, calculateETA, getFleetOptions (an async  *)
(* function with one suspension point) and getVehicleDisplayInfo.          *)
(*                                                                         *)
(* Vehicle names, identifiers and ETA texts are sequences of one-character *)
(* strings, so that toLowerCase, replace(/\s+/g, '-') and the template     *)
(* literal of calculateETA are computed character by character.  Matrix    *)
(* keys, descriptions, capacities and icons are only compared and tested   *)
(* for emptiness, and are plain strings; an icon is written as its code    *)
(* point.  An optional value (extraOption?, originalPrice?, badge?) is a   *)
(* sequence of length 0 (undefined) or 1.                                  *)
(***************************************************************************)
EXTENDS Integers, Sequences, FiniteSets, TLC

(* ---------------------------- bounds ----------------------------------- *)

\* number of getFleetOptions calls that may be in flight together
NumCalls == 2

(* ------------------------- vehicle names ------------------------------- *)

OneTonTruck == <<"1", " ", "T", "o", "n", " ", "T", "r", "u", "c", "k">>
ThreeTonTruck == <<"3", " ", "T", "o", "n", " ", "T", "r", "u", "c", "k">>
FourTonTruck == <<"4", " ", "T", "o", "n", " ", "T", "r", "u", "c", "k">>
DropsideTruck == <<"D", "r", "o", "p", "s", "i", "d", "e", " ", "T", "r", "u", "c", "k">>
TipperTruck == <<"T", "i", "p", "p", "e", "r", " ", "T", "r", "u", "c", "k">>
EnclosedTruck == <<"E", "n", "c", "l", "o", "s", "e", "d", " ", "T", "r", "u", "c", "k">>
Bicycle == <<"B", "i", "c", "y", "c", "l", "e">>
Motorbike == <<"M", "o", "t", "o", "r", "b", "i", "k", "e">>
Car == <<"C", "a", "r">>
SmallVan == <<"S", "m", "a", "l", "l", " ", "V", "a", "n">>
Bakkie == <<"B", "a", "k", "k", "i", "e">>
FlatbedTow == <<"F", "l", "a", "t", "b", "e", "d", " ", "T", "o", "w">>
StandardTow == <<"S", "t", "a", "n", "d", "a", "r", "d", " ", "T", "o", "w">>
HeavyDutyTow == <<"H", "e", "a", "v", "y", " ", "D", "u", "t", "y", " ", "T", "o", "w">>
IndustrialTow == <<"I", "n", "d", "u", "s", "t", "r", "i", "a", "l", " ", "T", "o", "w">>

(* ------------------------- static tables ------------------------------- *)

truckMatrixInit ==
  [k \in {"house-shifting", "farm-produce", "construction-material",
          "building-sand", "furniture", "bulk-goods"} |->
     CASE k = "house-shifting" -> <<OneTonTruck, ThreeTonTruck>>
       [] k = "farm-produce" -> <<DropsideTruck, ThreeTonTruck>>
       [] k = "construction-material" -> <<ThreeTonTruck, FourTonTruck>>
       [] k = "building-sand" -> <<TipperTruck, FourTonTruck>>
       [] k = "furniture" -> <<OneTonTruck, EnclosedTruck>>
       [] k = "bulk-goods" -> <<FourTonTruck, DropsideTruck>>]

packageMatrixInit ==
  [k \in {"0-5kg", "5-10kg", "10-20kg", "20-50kg"} |->
     CASE k = "0-5kg" -> <<Bicycle, Motorbike, Car>>
       [] k = "5-10kg" -> <<Motorbike, Car>>
       [] k = "10-20kg" -> <<Car, SmallVan>>
       [] k = "20-50kg" -> <<SmallVan, Bakkie>>]

towingMatrixInit ==
  [k \in {"sedan", "suv", "bakkie", "small-truck", "van"} |->
     CASE k = "sedan" -> <<FlatbedTow, StandardTow>>
       [] k = "suv" -> <<HeavyDutyTow, FlatbedTow>>
       [] k = "bakkie" -> <<HeavyDutyTow, FlatbedTow>>
       [] k = "small-truck" -> <<IndustrialTow, HeavyDutyTow>>
       [] k = "van" -> <<FlatbedTow, HeavyDutyTow>>]

\* one catalog entry (every entry of the source supplies all five fields)
Entry(icon, capacity, description, price, originalPrice) ==
  [icon |-> icon, capacity |-> capacity, description |-> description,
   price |-> price, originalPrice |-> originalPrice]

vehicleMetadataInit ==
  [n \in {OneTonTruck, ThreeTonTruck, FourTonTruck, DropsideTruck,
          TipperTruck, EnclosedTruck, Bicycle, Motorbike, Car, SmallVan,
          Bakkie, FlatbedTow, StandardTow, HeavyDutyTow, IndustrialTow} |->
     CASE n = OneTonTruck -> Entry("U+1F69A", "1 Ton", "Small moves", 180, 230)
       [] n = ThreeTonTruck -> Entry("U+1F69B", "3 Tons", "Medium loads", 280, 350)
       [] n = FourTonTruck -> Entry("U+1F69B", "4 Tons", "Heavy loads", 380, 480)
       [] n = DropsideTruck -> Entry("U+1F69A", "2.5 Tons", "Open sided", 250, 310)
       [] n = TipperTruck -> Entry("U+1F69B", "5 Tons", "Tipping bed", 420, 520)
       [] n = EnclosedTruck -> Entry("U+1F69A", "1.5 Tons", "Protected cargo", 220, 280)
       [] n = Bicycle -> Entry("U+1F6B4", "5kg", "Eco-friendly", 25, 35)
       [] n = Motorbike -> Entry("U+1F3CD U+FE0F", "10kg", "Fast delivery", 40, 55)
       [] n = Car -> Entry("U+1F697", "20kg", "Standard delivery", 60, 80)
       [] n = SmallVan -> Entry("U+1F690", "50kg", "Larger packages", 90, 115)
       [] n = Bakkie -> Entry("U+1F6FB", "100kg", "Heavy packages", 120, 150)
       [] n = FlatbedTow -> Entry("U+1F69B", "Standard", "Most vehicles", 350, 450)
       [] n = StandardTow -> Entry("U+1F697", "Light", "Small cars", 280, 350)
       [] n = HeavyDutyTow -> Entry("U+1F69B", "Heavy", "SUVs & Bakkies", 450, 570)
       [] n = IndustrialTow -> Entry("U+1F69B", "Industrial", "Large vehicles", 600, 750)]

\* Object.keys(vehicleMetadata): the own keys in insertion order
vehicleMetadataKeys ==
  <<OneTonTruck, ThreeTonTruck, FourTonTruck, DropsideTruck, TipperTruck,
    EnclosedTruck, Bicycle, Motorbike, Car, SmallVan, Bakkie, FlatbedTow,
    StandardTow, HeavyDutyTow, IndustrialTow>>

baseETAs ==
  [n \in {Bicycle, Motorbike, Car, SmallVan, Bakkie, OneTonTruck,
          ThreeTonTruck, FourTonTruck, DropsideTruck, TipperTruck,
          EnclosedTruck, FlatbedTow, StandardTow, HeavyDutyTow,
          IndustrialTow} |->
     CASE n = Bicycle -> 15
       [] n = Motorbike -> 5
       [] n = Car -> 8
       [] n = SmallVan -> 12
       [] n = Bakkie -> 15
       [] n = OneTonTruck -> 20
       [] n = ThreeTonTruck -> 25
       [] n = FourTonTruck -> 30
       [] n = DropsideTruck -> 25
       [] n = TipperTruck -> 30
       [] n = EnclosedTruck -> 20
       [] n = FlatbedTow -> 25
       [] n = StandardTow -> 20
       [] n = HeavyDutyTow -> 30
       [] n = IndustrialTow -> 35]

(* ----------------------- string primitives ----------------------------- *)

UpperChars ==
  <<"A","B","C","D","E","F","G","H","I","J","K","L","M",
    "N","O","P","Q","R","S","T","U","V","W","X","Y","Z">>

LowerChars ==
  <<"a","b","c","d","e","f","g","h","i","j","k","l","m",
    "n","o","p","q","r","s","t","u","v","w","x","y","z">>

\* String.prototype.toLowerCase, on the characters the tables use
toLowerCase(s) ==
  [i \in 1..Len(s) |->
     IF \E j \in 1..26 : UpperChars[j] = s[i]
       THEN LowerChars[CHOOSE j \in 1..26 : UpperChars[j] = s[i]]
       ELSE s[i]]

\* the characters the regular expression class \s matches (space, \t, \n)
Whitespace == {" ", "\t", "\n"}

RECURSIVE SkipWhitespace(_)
\* the rest of s after its leading run of whitespace
SkipWhitespace(s) ==
  IF s # <<>> /\ Head(s) \in Whitespace THEN SkipWhitespace(Tail(s)) ELSE s

RECURSIVE replaceWhitespaceRuns(_)
\* s.replace(/\s+/g, '-'): every maximal run of whitespace becomes one '-'
replaceWhitespaceRuns(s) ==
  IF s = <<>> THEN <<>>
  ELSE IF Head(s) \in Whitespace
    THEN <<"-">> \o replaceWhitespaceRuns(SkipWhitespace(s))
    ELSE <<Head(s)>> \o replaceWhitespaceRuns(Tail(s))

DigitChars == <<"0","1","2","3","4","5","6","7","8","9">>

RECURSIVE NumberToString(_)
\* the decimal text a template literal gives a non-negative integer
NumberToString(n) ==
  IF n < 10 THEN <<DigitChars[n + 1]>>
  ELSE NumberToString(n \div 10) \o <<DigitChars[(n % 10) + 1]>>

(* ------------------ property lookup on object literals ----------------- *)

\* A value read from a matrix: kind is "array", "function", "object" or
\* "undefined"; length is the value's length property, -1 where the value
\* has none (undefined); items are the elements of an array.
JSArray(items) == [kind |-> "array", length |-> Len(items), items |-> items]
JSFunction(arity) == [kind |-> "function", length |-> arity, items |-> <<>>]
JSObject == [kind |-> "object", length |-> -1, items |-> <<>>]
JSUndefined == [kind |-> "undefined", length |-> -1, items |-> <<>>]

\* What an object literal inherits from Object.prototype: the matrices are
\* plain object literals, so obj[key] walks the prototype chain.
ObjectPrototype ==
  [k \in {"constructor", "toString", "__proto__"} |->
     CASE k = "constructor" -> JSFunction(1)
       [] k = "toString" -> JSFunction(0)
       [] k = "__proto__" -> JSObject]

\* matrix[key]
GetProperty(matrix, key) ==
  IF key \in DOMAIN matrix THEN JSArray(matrix[key])
  ELSE IF key \in DOMAIN ObjectPrototype THEN ObjectPrototype[key]
  ELSE JSUndefined

\* extraOption || ""
OptionKey(extraOption) ==
  IF extraOption = <<>> \/ extraOption[1] = "" THEN "" ELSE extraOption[1]

\* matrix[extraOption || ""] || []
MatrixRow(matrix, extraOption) ==
  LET v == GetProperty(matrix, OptionKey(extraOption))
  IN  IF v.kind = "undefined" THEN JSArray(<<>>) ELSE v

(* --------------------------- calculateETA ------------------------------ *)

\* baseETAs[vehicleName] || 15
baseTime(vehicleName) ==
  IF vehicleName \in DOMAIN baseETAs /\ baseETAs[vehicleName] # 0
    THEN baseETAs[vehicleName]
    ELSE 15

\* calculateETA counting the rank from one
calculateETAOneBased(vehicleName, index) ==
  NumberToString(baseTime(vehicleName) + (index + 1) * 3) \o <<" ", "m", "i", "n">>

\* calculateETA without the rank term
calculateETANoRank(vehicleName, index) ==
  NumberToString(baseTime(vehicleName)) \o <<" ", "m", "i", "n">>

calculateETA(vehicleName, index) ==
  NumberToString(baseTime(vehicleName) + index * 3) \o <<" ", "m", "i", "n">>

(* -------------------------- getFleetOptions ---------------------------- *)

\* vehicleMetadata[vehicleName] || {}
MetadataOf(catalog, vehicleName) ==
  IF vehicleName \in DOMAIN catalog THEN catalog[vehicleName] ELSE <<>>

\* metadata.field || fallback, for a string field
StringOr(metadata, field, fallback) ==
  IF field \in DOMAIN metadata /\ metadata[field] # ""
    THEN metadata[field]
    ELSE fallback

\* metadata.field || fallback, for a numeric field
NumberOr(metadata, field, fallback) ==
  IF field \in DOMAIN metadata /\ metadata[field] # 0
    THEN metadata[field]
    ELSE fallback

\* originalPrice taken from the price field
OriginalPriceFromPrice(metadata) ==
  IF "price" \in DOMAIN metadata THEN <<metadata["price"]>> ELSE <<>>

\* metadata.originalPrice, undefined when the entry has none
OriginalPriceOf(metadata) ==
  IF "originalPrice" \in DOMAIN metadata
    THEN <<metadata["originalPrice"]>>
    ELSE <<>>

CategoryOf(index) ==
  IF index = 0 THEN "recommended"
  ELSE IF index = 1 THEN "cheaper"
  ELSE "faster"

\* the badge with a third tag for the later ranks
BadgeWithFaster(index) ==
  IF index = 0 THEN <<"RECOMMENDED">>
  ELSE IF index = 1 THEN <<"CHEAPER">>
  ELSE <<"FASTER">>

BadgeOf(index) ==
  IF index = 0 THEN <<"RECOMMENDED">>
  ELSE IF index = 1 THEN <<"CHEAPER">>
  ELSE <<>>

\* s.replace(/\s+/, '-'): without the g flag only the first run is replaced
replaceFirstWhitespaceRun(s) ==
  IF s = <<>> THEN <<>>
  ELSE IF \E i \in 1..Len(s) : s[i] \in Whitespace
    THEN LET i == CHOOSE j \in 1..Len(s) :
                    /\ s[j] \in Whitespace
                    /\ \A h \in 1..(j - 1) : s[h] \notin Whitespace
         IN  SubSeq(s, 1, i - 1) \o <<"-">> \o SkipWhitespace(SubSeq(s, i, Len(s)))
    ELSE s

\* the identifier built without the g flag
OfferIdFirstRun(vehicleName) == replaceFirstWhitespaceRun(toLowerCase(vehicleName))

\* vehicleName.toLowerCase().replace(/\s+/g, '-')
OfferId(vehicleName) == replaceWhitespaceRuns(toLowerCase(vehicleName))

\* the object the map callback returns for vehicleName at (zero-based) index
FleetVehicle(catalog, vehicleName, index) ==
  LET metadata == MetadataOf(catalog, vehicleName)
  IN  [id |-> OfferId(vehicleName),
       name |-> vehicleName,
       description |-> StringOr(metadata, "description", "Available now"),
       eta |-> calculateETA(vehicleName, index),
       price |-> NumberOr(metadata, "price", 100),
       originalPrice |-> OriginalPriceOf(metadata),
       capacity |-> StringOr(metadata, "capacity", "Standard"),
       badge |-> BadgeOf(index),
       icon |-> StringOr(metadata, "icon", "U+1F697"),
       category |-> CategoryOf(index)]

\* the map over the first two names only
BuildFleetTopTwo(catalog, vehicleNames) ==
  [i \in 1..(IF Len(vehicleNames) < 2 THEN Len(vehicleNames) ELSE 2) |->
     FleetVehicle(catalog, vehicleNames[i], i - 1)]

\* vehicleNames.map((vehicleName, index) => ...)
BuildFleet(catalog, vehicleNames) ==
  [i \in 1..Len(vehicleNames) |-> FleetVehicle(catalog, vehicleNames[i], i - 1)]

\* the switch with 'ride' grouped with 'truck'
SwitchRideAsTruck(tM, pM, wM, serviceType, extraOption) ==
  CASE serviceType \in {"truck", "ride"} ->
         [returned |-> FALSE, vehicleNames |-> MatrixRow(tM, extraOption)]
    [] serviceType = "package" ->
         [returned |-> FALSE, vehicleNames |-> MatrixRow(pM, extraOption)]
    [] serviceType = "towing" ->
         [returned |-> FALSE, vehicleNames |-> MatrixRow(wM, extraOption)]
    [] OTHER ->
         [returned |-> FALSE, vehicleNames |-> JSArray(<<>>)]

\* The switch over serviceType: returned tells that the case returned [] from
\* the function, vehicleNames is the value the variable holds after the switch
\* (it keeps its initial [] when no case matches).
SwitchServiceType(tM, pM, wM, serviceType, extraOption) ==
  CASE serviceType = "truck" ->
         [returned |-> FALSE, vehicleNames |-> MatrixRow(tM, extraOption)]
    [] serviceType = "package" ->
         [returned |-> FALSE, vehicleNames |-> MatrixRow(pM, extraOption)]
    [] serviceType = "towing" ->
         [returned |-> FALSE, vehicleNames |-> MatrixRow(wM, extraOption)]
    [] serviceType = "ride" ->
         [returned |-> TRUE, vehicleNames |-> JSArray(<<>>)]
    [] OTHER ->
         [returned |-> FALSE, vehicleNames |-> JSArray(<<>>)]

\* How the body after the await settles the promise: status "resolved" with
\* the returned array, or "rejected" when vehicleNames.map is not a function
\* (TypeError); warned tells whether console.warn was called.
Settle(tM, pM, wM, catalog, serviceType, extraOption) ==
  LET sw == SwitchServiceType(tM, pM, wM, serviceType, extraOption)
      vehicleNames == sw.vehicleNames
  IN  IF sw.returned
        THEN [status |-> "resolved", value |-> <<>>, warned |-> FALSE]
      ELSE IF vehicleNames.length = 0
        THEN [status |-> "resolved", value |-> <<>>, warned |-> TRUE]
      ELSE IF vehicleNames.kind # "array"
        THEN [status |-> "rejected", value |-> <<>>, warned |-> FALSE]
      ELSE [status |-> "resolved",
            value |-> BuildFleet(catalog, vehicleNames.items),
            warned |-> FALSE]

(* ----------------------- getVehicleDisplayInfo ------------------------- *)

RECURSIVE FindKeyCaseSensitive(_, _)
\* the search comparing the identifier with the key not lowercased
FindKeyCaseSensitive(keys, vehicleId) ==
  IF keys = <<>> THEN <<>>
  ELSE IF replaceWhitespaceRuns(Head(keys)) = vehicleId
    THEN <<Head(keys)>>
    ELSE FindKeyCaseSensitive(Tail(keys), vehicleId)

RECURSIVE FindKey(_, _)
\* Object.keys(vehicleMetadata).find(key => slug(key) === vehicleId): the
\* first matching key as a one-element sequence, <<>> for undefined
FindKey(keys, vehicleId) ==
  IF keys = <<>> THEN <<>>
  ELSE IF replaceWhitespaceRuns(toLowerCase(Head(keys))) = vehicleId
    THEN <<Head(keys)>>
    ELSE FindKey(Tail(keys), vehicleId)

getVehicleDisplayInfo(catalog, vehicleId) ==
  LET vehicleName == FindKey(vehicleMetadataKeys, vehicleId)
  IN  IF vehicleName # <<>> /\ vehicleName[1] # <<>>
        THEN [name |-> vehicleName[1],
              icon |-> StringOr(catalog[vehicleName[1]], "icon", "U+1F697")]
        ELSE [name |-> <<"V", "e", "h", "i", "c", "l", "e">>, icon |-> "U+1F697"]

(* ------------------------------ state ---------------------------------- *)

VARIABLES
  truckMatrix,      \* the three eligibility matrices and the catalog: module
  packageMatrix,    \*   level objects every call reads
  towingMatrix,
  vehicleMetadata,
  pc,               \* per call: "idle", "sleeping" (at the await of the
                    \*   300 ms timer), "resolved" or "rejected"
  serviceType,      \* per call: the arguments
  extraOption,
  result,           \* per call: the array the promise resolved with
  warned,           \* per call: console.warn was called
  overlap,          \* per call (history): the calls that were suspended at
                    \*   their await when this call ran its body
  displayed         \* the last getVehicleDisplayInfo call, <<>> before any:
                    \*   <<[vehicleId, name, icon]>>

vars == <<truckMatrix, packageMatrix, towingMatrix, vehicleMetadata, pc,
          serviceType, extraOption, result, warned, overlap, displayed>>

tables == <<truckMatrix, packageMatrix, towingMatrix, vehicleMetadata>>

Calls == 1..NumCalls

ServiceTypes == {"ride", "package", "truck", "towing"}

\* the subOptionKey arguments tried: absent, empty, every configured key, a
\* key of no matrix, and names every object inherits
ExtraOptions ==
  {<<>>} \cup
  {<<k>> : k \in DOMAIN truckMatrixInit \cup DOMAIN packageMatrixInit \cup
                 DOMAIN towingMatrixInit \cup
                 {"", "unknown-key", "constructor", "toString", "__proto__"}}

\* the argument pairs of the overlapping calls
ConcurrentArgs ==
  {<<"package", <<"0-5kg">>>>, <<"truck", <<"house-shifting">>>>,
   <<"towing", <<"sedan">>>>, <<"ride", <<"sedan">>>>,
   <<"truck", <<"unknown-key">>>>, <<"package", <<"constructor">>>>}

\* the identifiers of the offers the finished calls returned
ReturnedIds ==
  UNION {{result[c][i].id : i \in 1..Len(result[c])} : c \in Calls}

Init ==
  /\ truckMatrix = truckMatrixInit
  /\ packageMatrix = packageMatrixInit
  /\ towingMatrix = towingMatrixInit
  /\ vehicleMetadata = vehicleMetadataInit
  /\ pc = [c \in Calls |-> "idle"]
  /\ serviceType = [c \in Calls |-> ""]
  /\ extraOption = [c \in Calls |-> <<>>]
  /\ result = [c \in Calls |-> <<>>]
  /\ warned = [c \in Calls |-> FALSE]
  /\ overlap = [c \in Calls |-> {}]
  /\ displayed = <<>>

(* ------------------------------ actions -------------------------------- *)

\* getFleetOptions(st, opt) is called: it runs to the await and suspends
Call(c, st, opt) ==
  /\ pc[c] = "idle"
  /\ pc' = [pc EXCEPT ![c] = "sleeping"]
  /\ serviceType' = [serviceType EXCEPT ![c] = st]
  /\ extraOption' = [extraOption EXCEPT ![c] = opt]
  /\ UNCHANGED <<tables, result, warned, overlap, displayed>>

\* the body reversing vehicleNames in place before the map: the array is the
\* matrix row itself, so the matrix changes
ResumeInPlace(c) ==
  /\ pc[c] = "sleeping"
  /\ LET k == OptionKey(extraOption[c])
         Reversed(row) == [i \in 1..Len(row) |-> row[Len(row) + 1 - i]]
         After(m, st) ==
           IF serviceType[c] = st /\ k \in DOMAIN m
             THEN [m EXCEPT ![k] = Reversed(@)]
             ELSE m
         s == Settle(After(truckMatrix, "truck"), After(packageMatrix, "package"),
                     After(towingMatrix, "towing"), vehicleMetadata,
                     serviceType[c], extraOption[c])
     IN  /\ truckMatrix' = After(truckMatrix, "truck")
         /\ packageMatrix' = After(packageMatrix, "package")
         /\ towingMatrix' = After(towingMatrix, "towing")
         /\ pc' = [pc EXCEPT ![c] = s.status]
         /\ result' = [result EXCEPT ![c] = s.value]
         /\ warned' = [warned EXCEPT ![c] = s.warned]
  /\ overlap' = [overlap EXCEPT ![c] = {d \in Calls \ {c} : pc[d] = "sleeping"}]
  /\ UNCHANGED <<vehicleMetadata, serviceType, extraOption, displayed>>

\* the timer fires: the rest of the body runs to completion in one turn of
\* the event loop and settles the promise
Resume(c) ==
  /\ pc[c] = "sleeping"
  /\ LET s == Settle(truckMatrix, packageMatrix, towingMatrix,
                     vehicleMetadata, serviceType[c], extraOption[c])
     IN  /\ pc' = [pc EXCEPT ![c] = s.status]
         /\ result' = [result EXCEPT ![c] = s.value]
         /\ warned' = [warned EXCEPT ![c] = s.warned]
  /\ overlap' = [overlap EXCEPT ![c] = {d \in Calls \ {c} : pc[d] = "sleeping"}]
  /\ UNCHANGED <<tables, serviceType, extraOption, displayed>>

\* getVehicleDisplayInfo(id)
Display(id) ==
  /\ LET info == getVehicleDisplayInfo(vehicleMetadata, id)
     IN  displayed' = <<[vehicleId |-> id, name |-> info.name, icon |-> info.icon]>>
  /\ UNCHANGED <<tables, pc, serviceType, extraOption, result, warned, overlap>>

\* the identifiers tried besides the returned ones: two slugs, the spec's
\* unknown identifier, a display name, a slug in upper case, the empty string
FixedIds ==
  {<<"3", "-", "t", "o", "n", "-", "t", "r", "u", "c", "k">>, <<"h", "e", "a", "v", "y", "-", "d", "u", "t", "y", "-", "t", "o", "w">>, <<"u", "n", "k", "n", "o", "w", "n", "-", "i", "d">>, <<"3", " ", "T", "o", "n", " ", "T", "r", "u", "c", "k">>,
   <<"3", "-", "T", "o", "n", "-", "T", "r", "u", "c", "k">>, <<"v", "e", "h", "i", "c", "l", "e">>, <<>>}

\* one caller: a call, its resumption, and lookups of identifiers
CallStep ==
  \E st \in ServiceTypes, opt \in ExtraOptions : Call(1, st, opt)

ResumeStep == Resume(1)

DisplayStep == \E id \in FixedIds \cup ReturnedIds : Display(id)

Next == CallStep \/ ResumeStep \/ DisplayStep

Spec == Init /\ [][Next]_vars

\* several callers whose calls overlap at the await
ConcurrentCall ==
  \E c \in Calls, a \in ConcurrentArgs : Call(c, a[1], a[2])

ConcurrentResume == \E c \in Calls : Resume(c)

ConcurrentNext == ConcurrentCall \/ ConcurrentResume

ConcurrentSpec == Init /\ [][ConcurrentNext]_vars

(* ------------------------ vocabulary of the properties ----------------- *)

Settled(c) == pc[c] \in {"resolved", "rejected"}

\* the matrix of a structured service type, as configured
ConfiguredMatrix(st) ==
  CASE st = "truck" -> truckMatrixInit
    [] st = "package" -> packageMatrixInit
    [] st = "towing" -> towingMatrixInit
    [] OTHER -> <<>>

\* (st, opt) is a configured row of the truck, package or towing matrix
IsConfigured(st, opt) ==
  /\ st \in {"truck", "package", "towing"}
  /\ opt # <<>>
  /\ opt[1] \in DOMAIN ConfiguredMatrix(st)

ConfiguredRow(st, opt) == ConfiguredMatrix(st)[opt[1]]

RECURSIVE ParseNumber(_)
\* the number a sequence of decimal digits denotes
ParseNumber(digits) ==
  IF digits = <<>> THEN 0
  ELSE ParseNumber(SubSeq(digits, 1, Len(digits) - 1)) * 10
       + (CHOOSE d \in 0..9 : DigitChars[d + 1] = digits[Len(digits)])

\* eta has the form "<digits> min"
IsEtaText(eta) ==
  /\ Len(eta) > 4
  /\ SubSeq(eta, Len(eta) - 3, Len(eta)) = <<" ", "m", "i", "n">>
  /\ \A i \in 1..(Len(eta) - 4) : \E d \in 1..10 : DigitChars[d] = eta[i]

\* the minutes an eta text shows
EtaMinutes(eta) == ParseNumber(SubSeq(eta, 1, Len(eta) - 4))

\* the texts of the etas of a list, in order
Etas(fleet) == [i \in 1..Len(fleet) |-> fleet[i].eta]

\* the entry of the base-duration table, 15 without one
BaseDuration(name) == IF name \in DOMAIN baseETAs THEN baseETAs[name] ELSE 15

(* ------------------------------ C1 ------------------------------------- *)

\* C1: for every configured (serviceType, subOptionKey) row a settled call
\* resolved with a non-empty list as long as the row, whose i-th offer has the
\* row's i-th vehicle name.
C1_RowOrderPreserved ==
  \A c \in Calls :
    (Settled(c) /\ IsConfigured(serviceType[c], extraOption[c])) =>
      LET row == ConfiguredRow(serviceType[c], extraOption[c])
      IN  /\ pc[c] = "resolved"
          /\ Len(result[c]) > 0
          /\ Len(result[c]) = Len(row)
          /\ \A i \in 1..Len(row) : result[c][i].name = row[i]

C1_Witness ==
  \E c \in Calls :
    /\ pc[c] = "resolved"
    /\ serviceType[c] = "package" /\ extraOption[c] = <<"0-5kg">>
    /\ Len(result[c]) = 3
    /\ result[c][3].name = Car

(* ------------------------------ C2 ------------------------------------- *)

\* C2: no call rejects, and a call whose (serviceType, subOptionKey) is not a
\* configured row resolves with the empty sequence.
C2_NeverRejects ==
  \A c \in Calls :
    /\ pc[c] # "rejected"
    /\ (Settled(c) /\ ~IsConfigured(serviceType[c], extraOption[c])) =>
         result[c] = <<>>

(* ------------------------------ C3 ------------------------------------- *)

\* C3: a call with serviceType "ride" resolves with the empty sequence for
\* every subOptionKey.
C3_RideIsEmpty ==
  \A c \in Calls :
    (Settled(c) /\ serviceType[c] = "ride") =>
      (pc[c] = "resolved" /\ result[c] = <<>>)

C3_Witness ==
  \E c \in Calls :
    /\ pc[c] = "resolved"
    /\ serviceType[c] = "ride"
    /\ extraOption[c] = <<"house-shifting">>
    /\ result[c] = <<>>

(* ------------------------------ C4 ------------------------------------- *)

\* C4: in every returned list the offer at index 0 is recommended/RECOMMENDED,
\* the offer at index 1 is cheaper/CHEAPER, every later offer is faster with
\* no badge; no offer carries FASTER.
C4_BadgeByPosition ==
  \A c \in Calls : \A i \in 1..Len(result[c]) :
    LET o == result[c][i]
    IN  /\ (i = 1) => (o.category = "recommended" /\ o.badge = <<"RECOMMENDED">>)
        /\ (i = 2) => (o.category = "cheaper" /\ o.badge = <<"CHEAPER">>)
        /\ (i >= 3) => (o.category = "faster" /\ o.badge = <<>>)
        /\ o.badge # <<"FASTER">>
        /\ (o.badge = <<"RECOMMENDED">>) <=> (i = 1)

C4_Witness ==
  \E c \in Calls :
    /\ pc[c] = "resolved"
    /\ Len(result[c]) = 3
    /\ result[c][1].badge = <<"RECOMMENDED">>
    /\ result[c][2].badge = <<"CHEAPER">>
    /\ result[c][3].badge = <<>> /\ result[c][3].category = "faster"

(* ------------------------------ C5 ------------------------------------- *)

\* C5: the eta of the offer at zero-based index i reads "<m> min" with
\* m = base(name) + 3*i, base(name) the vehicle's entry of the base-duration
\* table (which covers the catalog) and 15 without an entry; package "0-5kg"
\* gives 15, 8, 14 and truck "house-shifting" gives 20, 28.
C5_EtaIsBasePlusThreePerRank ==
  /\ DOMAIN vehicleMetadata \subseteq DOMAIN baseETAs
  /\ \A c \in Calls :
       /\ \A i \in 1..Len(result[c]) :
            LET o == result[c][i]
            IN  /\ IsEtaText(o.eta)
                /\ EtaMinutes(o.eta) = BaseDuration(o.name) + 3 * (i - 1)
       /\ (pc[c] = "resolved" /\ serviceType[c] = "package"
             /\ extraOption[c] = <<"0-5kg">>) =>
            Etas(result[c]) = <<<<"1", "5", " ", "m", "i", "n">>, <<"8", " ", "m", "i", "n">>, <<"1", "4", " ", "m", "i", "n">>>>
       /\ (pc[c] = "resolved" /\ serviceType[c] = "truck"
             /\ extraOption[c] = <<"house-shifting">>) =>
            Etas(result[c]) = <<<<"2", "0", " ", "m", "i", "n">>, <<"2", "8", " ", "m", "i", "n">>>>

C5_Witness ==
  \E c \in Calls :
    /\ pc[c] = "resolved"
    /\ serviceType[c] = "package" /\ extraOption[c] = <<"0-5kg">>
    /\ Len(result[c]) = 3
    /\ result[c][2].eta = <<"8", " ", "m", "i", "n">>

(* ------------------------------ C6 ------------------------------------- *)

\* C6 (as claimed): within every returned list the ETA in minutes of the
\* offer at index i+1 is greater than that of the offer at index i, so the
\* offer at index 0 has the smallest ETA of its list.
C6_LaterRankTakesLonger ==
  \A c \in Calls :
    /\ \A i \in 1..(Len(result[c]) - 1) :
         EtaMinutes(result[c][i + 1].eta) > EtaMinutes(result[c][i].eta)
    /\ \A i \in 1..Len(result[c]) :
         EtaMinutes(result[c][1].eta) <= EtaMinutes(result[c][i].eta)

\* C6 (amended): within every returned list the ETA of the offer at index i+1
\* is greater than that of the offer at index i exactly when the base duration
\* of the vehicle at i+1 plus 3 exceeds the base duration of the vehicle at i.
C6_LaterRankLongerIffBaseAllows ==
  \A c \in Calls : \A i \in 1..(Len(result[c]) - 1) :
    (EtaMinutes(result[c][i + 1].eta) > EtaMinutes(result[c][i].eta))
      <=> (BaseDuration(result[c][i + 1].name) + 3 > BaseDuration(result[c][i].name))

C6_Witness ==
  \E c \in Calls :
    /\ pc[c] = "resolved"
    /\ Len(result[c]) = 3
    /\ EtaMinutes(result[c][2].eta) < EtaMinutes(result[c][1].eta)
    /\ EtaMinutes(result[c][3].eta) > EtaMinutes(result[c][2].eta)

(* ------------------------------ C7 ------------------------------------- *)

\* C7: every offer returned for a configured pair carries exactly the catalog
\* entry's description, price, originalPrice, capacity and icon of its vehicle
\* name; truck "house-shifting" gives 180/230 and 280/350.
C7_CatalogFieldsCopied ==
  \A c \in Calls :
    (pc[c] = "resolved" /\ IsConfigured(serviceType[c], extraOption[c])) =>
      /\ \A i \in 1..Len(result[c]) :
           LET o == result[c][i]
               e == vehicleMetadataInit[o.name]
           IN  /\ o.name \in DOMAIN vehicleMetadataInit
               /\ o.description = e.description
               /\ o.price = e.price
               /\ o.originalPrice = <<e.originalPrice>>
               /\ o.capacity = e.capacity
               /\ o.icon = e.icon
      /\ (serviceType[c] = "truck" /\ extraOption[c] = <<"house-shifting">>) =>
           /\ Len(result[c]) = 2
           /\ result[c][1].price = 180 /\ result[c][1].originalPrice = <<230>>
           /\ result[c][2].price = 280 /\ result[c][2].originalPrice = <<350>>

C7_Witness ==
  \E c \in Calls :
    /\ pc[c] = "resolved"
    /\ serviceType[c] = "truck" /\ extraOption[c] = <<"house-shifting">>
    /\ Len(result[c]) = 2
    /\ result[c][2].originalPrice = <<350>>

(* ------------------------------ C8 ------------------------------------- *)

\* the catalog names whose slug is the identifier
NamesWithSlug(vehicleId) ==
  {n \in DOMAIN vehicleMetadataInit :
     replaceWhitespaceRuns(toLowerCase(n)) = vehicleId}

\* C8: getVehicleDisplayInfo returns the name and icon of the catalog entry
\* whose slug is the identifier when there is one ("3-ton-truck" gives
\* "3 Ton Truck" with its icon), and the placeholder Vehicle otherwise.
C8_DisplayInfoTotal ==
  displayed # <<>> =>
    LET d == displayed[1]
    IN  /\ (NamesWithSlug(d.vehicleId) # {}) =>
             /\ d.name \in NamesWithSlug(d.vehicleId)
             /\ d.icon = vehicleMetadataInit[d.name].icon
        /\ (NamesWithSlug(d.vehicleId) = {}) =>
             (d.name = <<"V", "e", "h", "i", "c", "l", "e">> /\ d.icon = "U+1F697")
        /\ (d.vehicleId = <<"3", "-", "t", "o", "n", "-", "t", "r", "u", "c", "k">>) =>
             (d.name = ThreeTonTruck /\ d.icon = "U+1F69B")
        /\ (d.vehicleId = <<"u", "n", "k", "n", "o", "w", "n", "-", "i", "d">>) =>
             (d.name = <<"V", "e", "h", "i", "c", "l", "e">> /\ d.icon = "U+1F697")

C8_Witness ==
  /\ displayed # <<>>
  /\ displayed[1].vehicleId = <<"3", "-", "t", "o", "n", "-", "t", "r", "u", "c", "k">>
  /\ displayed[1].name = ThreeTonTruck

(* ------------------------------ C9 ------------------------------------- *)

\* C9: whatever the interleaving of overlapping calls, every settled call has
\* the outcome of the same call run alone on the configured tables, two
\* settled calls with the same arguments have the same outcome, and the
\* matrices and the catalog keep their configured values.
C9_CallsIndependent ==
  /\ truckMatrix = truckMatrixInit
  /\ packageMatrix = packageMatrixInit
  /\ towingMatrix = towingMatrixInit
  /\ vehicleMetadata = vehicleMetadataInit
  /\ \A c \in Calls :
       Settled(c) =>
         LET alone == Settle(truckMatrixInit, packageMatrixInit, towingMatrixInit,
                             vehicleMetadataInit, serviceType[c], extraOption[c])
         IN  pc[c] = alone.status /\ result[c] = alone.value
  /\ \A c, d \in Calls :
       (Settled(c) /\ Settled(d) /\ serviceType[c] = serviceType[d]
          /\ extraOption[c] = extraOption[d]) =>
         (pc[c] = pc[d] /\ result[c] = result[d])

C9_Witness ==
  \E c, d \in Calls :
    /\ c # d
    /\ d \in overlap[c]
    /\ pc[c] = "resolved" /\ pc[d] = "resolved"
    /\ serviceType[c] = "package" /\ serviceType[d] = "package"
    /\ extraOption[c] = <<"0-5kg">> /\ extraOption[d] = <<"0-5kg">>
    /\ Len(result[c]) = 3 /\ result[c] = result[d]

(* ------------------------------ C10 ------------------------------------ *)

\* C10: no two catalog names have the same slug, and looking up the id of a
\* returned offer gives that offer's name and icon.
C10_IdRoundTrip ==
  /\ \A n, m \in DOMAIN vehicleMetadata :
       (replaceWhitespaceRuns(toLowerCase(n)) = replaceWhitespaceRuns(toLowerCase(m)))
         => n = m
  /\ \A c \in Calls : \A i \in 1..Len(result[c]) :
       (displayed # <<>> /\ displayed[1].vehicleId = result[c][i].id) =>
         /\ displayed[1].name = result[c][i].name
         /\ displayed[1].icon = result[c][i].icon

C10_Witness ==
  \E c \in Calls :
    /\ pc[c] = "resolved"
    /\ Len(result[c]) >= 2
    /\ displayed # <<>>
    /\ displayed[1].vehicleId = result[c][2].id
    /\ displayed[1].name = result[c][2].name
    /\ Len(SelectSeq(result[c][2].name, LAMBDA ch : ch = " ")) = 2

====
